---------------------------- MODULE Spec2Model ----------------------------
(***************************************************************************)
(* flanneld's orchestration layer (main.go): backend selection from the    *)
(* network configuration, the run goroutine that drives Backend.Init,      *)
(* writeSubnetFile, the readiness notification and Backend.Run, and main's *)
(* select loop over the signal channel and the exit channel.               *)
(*                                                                         *)
(* Two goroutines are modelled, main and run, each by its program counter. *)
(* The coordination store, the interface lookup, the file system and the   *)
(* Backend implementation are the environment: every call into them is an  *)
(* action whose outcome is chosen from a small set.                        *)
(*                                                                         *)
(* A signal delivered while no channel is registered for it ends the       *)
(* process by the default disposition; the model describes the process     *)
(* while it lives, so signals are delivered only while sigs is registered. *)
(***************************************************************************)
EXTENDS Integers, Sequences, FiniteSets, TLC

\* Saturation bound of the count of failed NewSubnetManager attempts.
MaxAttempts == 2

\* sigs := make(chan os.Signal, 1)
SigBufCap == 1

VARIABLES
    storeUp,        \* environment: the coordination store is reachable
    attempts,       \* failed NewSubnetManager attempts so far (saturating)
    configBackend,  \* config.Backend, the raw backend payload
    mainPc,         \* position of the main goroutine
    be,             \* the backend newBackend returned: "none", "udp", "alloc"
    beErr,          \* the error newBackend returned: "nil", "decode", "unknown"
    sigInstalled,   \* signal.Notify has been called
    sigRegistered,  \* sigs is currently registered for SIGINT and SIGTERM
    sigs,           \* the buffered signal channel
    runPc,          \* position of the run goroutine
    err,            \* run's err variable, read by its deferred function
    ifaceMTU,       \* iface.MTU as lookupIface returned it
    snInit,         \* the subnet assignment as Backend.Init returned it
    sn,             \* *sn, the SubnetDef run holds (writeSubnetFile mutates it)
    subnetFile,     \* the file opts.subnetFile
    writeErr,       \* what writeSubnetFile returned (run discards it)
    sdNotified,     \* daemon.SdNotify("READY=1") has been called
    initCalls,      \* calls of Backend.Init
    initResult,     \* "none", "pending", "ok", "ErrCanceled", "error"
    runCalls,       \* calls of Backend.Run
    runEnd,         \* why Backend.Run returned: "none", "ok", "stopped", "fatal"
    stopCalls,      \* calls of Backend.Stop
    exitCode        \* the code given to os.Exit, -1 while the process lives

vars == <<storeUp, attempts, configBackend, mainPc, be, beErr, sigInstalled,
          sigRegistered, sigs, runPc, err, ifaceMTU, snInit, sn, subnetFile,
          writeErr, sdNotified, initCalls, initResult, runCalls, runEnd,
          stopCalls, exitCode>>

mainVars == <<mainPc, be, beErr, sigInstalled, sigRegistered, sigs, stopCalls,
              exitCode>>
runVars == <<runPc, err, ifaceMTU, snInit, sn, subnetFile, writeErr,
             sdNotified, initCalls, initResult, runCalls, runEnd>>
storeVars == <<storeUp, attempts>>

------------------------------------------------------------------------------
(* Strings are sequences of one-character strings, so that strings.ToLower *)
(* is a computation on characters.                                         *)

S_udp == <<"u", "d", "p">>
S_UDP == <<"U", "D", "P">>
S_Udp == <<"U", "d", "p">>
S_alloc == <<"a", "l", "l", "o", "c">>
S_ALLOC == <<"A", "L", "L", "O", "C">>
S_vxlan == <<"v", "x", "l", "a", "n">>
S_udpx == <<"u", "d", "p", "x">>
S_empty == <<>>
S_Type == <<"T", "y", "p", "e">>
S_type == <<"t", "y", "p", "e">>
S_Port == <<"P", "o", "r", "t">>

\* unicode.ToLower on the letters the model's strings are made of
LowerChar(c) ==
    CASE c = "A" -> "a"
      [] c = "C" -> "c"
      [] c = "D" -> "d"
      [] c = "L" -> "l"
      [] c = "O" -> "o"
      [] c = "P" -> "p"
      [] c = "T" -> "t"
      [] c = "U" -> "u"
      [] OTHER -> c

ToLower(s) == [i \in DOMAIN s |-> LowerChar(s[i])]


------------------------------------------------------------------------------
(* config.Backend is a json.RawMessage.  A payload is its JSON shape: raw  *)
(* is "empty" (no bytes: the configuration has no Backend), "malformed"    *)
(* (not JSON), "null", "array" (JSON, but no object) or "object"; an       *)
(* object's fields are its members in order, each a key and a value that   *)
(* is a string (isStr) or something else.                                  *)

Field(k, isStr, v) == [key |-> k, isStr |-> isStr, str |-> v]

Payload(raw, fields) == [raw |-> raw, fields |-> fields]

Tags == {S_udp, S_UDP, S_Udp, S_alloc, S_ALLOC, S_vxlan, S_udpx, S_empty}

Payloads ==
    {Payload("empty", <<>>), Payload("malformed", <<>>),
     Payload("null", <<>>), Payload("array", <<>>),
     Payload("object", <<>>),
     Payload("object", <<Field(S_Port, FALSE, S_empty)>>),
     Payload("object", <<Field(S_Type, FALSE, S_empty)>>),
     Payload("object", <<Field(S_type, TRUE, S_alloc)>>),
     Payload("object", <<Field(S_Type, TRUE, S_udp),
                         Field(S_Port, FALSE, S_empty)>>)}
    \cup {Payload("object", <<Field(S_Type, TRUE, t)>>) : t \in Tags}

\* The decoding target: var bt struct { Type string }
BtZero == [err |-> FALSE, Type |-> S_empty]

\* json.Unmarshal of an object's members into bt, in order: a member whose
\* key matches the field name Type (case-insensitively) sets it when its
\* value is a string and makes the call fail when it is not; other members
\* are skipped.
RECURSIVE DecodeFields(_, _)
DecodeFields(fields, bt) ==
    IF fields = <<>> THEN bt
    ELSE LET f == Head(fields)
             bt1 == IF ToLower(f.key) # S_type THEN bt
                    ELSE IF f.isStr THEN [bt EXCEPT !.Type = f.str]
                    ELSE [bt EXCEPT !.err = TRUE]
         IN DecodeFields(Tail(fields), bt1)

\* json.Unmarshal(config.Backend, &bt)
Unmarshal(p) ==
    CASE p.raw = "object" -> DecodeFields(p.fields, BtZero)
      [] p.raw = "null" -> BtZero
      [] OTHER -> [BtZero EXCEPT !.err = TRUE]

\* len(config.Backend) == 0
PayloadEmpty(p) == p.raw = "empty"

\* Mutant of DefaultType: the lease-only backend as the default
DefaultType_Alloc == S_alloc

\* The default tag newBackend assigns when the payload is empty.
DefaultType == S_udp

\* if len(config.Backend) == 0 { bt.Type = "udp" } else { json.Unmarshal }
DecodeType(p) ==
    IF PayloadEmpty(p) THEN [BtZero EXCEPT !.Type = DefaultType]
    ELSE Unmarshal(p)

\* Mutant of SelectBackend: the default case falls back to the UDP backend
SelectBackend_FallbackUdp(t) ==
    CASE ToLower(t) = S_alloc -> [be |-> "alloc", err |-> "nil"]
      [] OTHER -> [be |-> "udp", err |-> "nil"]

\* switch strings.ToLower(bt.Type)
SelectBackend(t) ==
    CASE ToLower(t) = S_udp -> [be |-> "udp", err |-> "nil"]
      [] ToLower(t) = S_alloc -> [be |-> "alloc", err |-> "nil"]
      [] OTHER -> [be |-> "none", err |-> "unknown"]

\* newBackend's result for a payload, once the subnet manager exists
NewBackendResult(p) ==
    LET bt == DecodeType(p)
    IN IF bt.err THEN [be |-> "none", err |-> "decode"]
       ELSE SelectBackend(bt.Type)

------------------------------------------------------------------------------
(* Inputs of the environment.                                              *)

Signals == {"SIGINT", "SIGTERM"}

\* iface.MTU values lookupIface may report
IfaceMTUs == {0, 1, 1500}

\* Subnet assignments Backend.Init may return: Net.IP (its four octets),
\* Net.PrefixLen and MTU
Assignments ==
    {[IP |-> <<10, 1, 2, 0>>, PrefixLen |-> 24, MTU |-> 1472],
     [IP |-> <<10, 0, 255, 255>>, PrefixLen |-> 32, MTU |-> 1450],
     [IP |-> <<255, 255, 255, 255>>, PrefixLen |-> 32, MTU |-> 0]}

NoSn == [IP |-> <<0, 0, 0, 0>>, PrefixLen |-> 0, MTU |-> 0]

NoFile == [exists |-> FALSE, lines |-> <<>>]

Init ==
    /\ storeUp \in BOOLEAN
    /\ attempts = 0
    /\ configBackend \in Payloads
    /\ mainPc = "msm_try"
    /\ be = "none"
    /\ beErr = "nil"
    /\ sigInstalled = FALSE
    /\ sigRegistered = FALSE
    /\ sigs = <<>>
    /\ runPc = "none"
    /\ err = "nil"
    /\ ifaceMTU = 0
    /\ snInit = NoSn
    /\ sn = NoSn
    /\ subnetFile = NoFile
    /\ writeErr = "none"
    /\ sdNotified = FALSE
    /\ initCalls = 0
    /\ initResult = "none"
    /\ runCalls = 0
    /\ runEnd = "none"
    /\ stopCalls = 0
    /\ exitCode = -1

\* os.Exit ends every goroutine.
Alive == mainPc # "exited"

------------------------------------------------------------------------------
(* The coordination store and makeSubnetManager's loop.                    *)

\* The store becomes reachable or unreachable while flanneld tries to
\* contact it.
StoreChange ==
    /\ mainPc \in {"msm_try", "msm_sleep"}
    /\ storeUp' = ~storeUp
    /\ UNCHANGED <<attempts, configBackend>>
    /\ UNCHANGED mainVars
    /\ UNCHANGED runVars

\* Mutant of AfterAttempt: makeSubnetManager returns after a failed attempt
AfterAttempt_ReturnsAnyway(ok) == "newBackend"

\* Where makeSubnetManager's loop goes after one NewSubnetManager call:
\* it returns sm when err == nil, else it logs and sleeps.
AfterAttempt(ok) == IF ok THEN "newBackend" ELSE "msm_sleep"

\* sm, err := subnet.NewSubnetManager(peers, opts.etcdPrefix)
MsmTry ==
    /\ mainPc = "msm_try"
    /\ mainPc' = AfterAttempt(storeUp)
    /\ attempts' = IF storeUp \/ attempts >= MaxAttempts
                   THEN attempts ELSE attempts + 1
    /\ UNCHANGED <<storeUp, configBackend, be, beErr, sigInstalled,
                   sigRegistered, sigs, stopCalls, exitCode>>
    /\ UNCHANGED runVars

\* time.Sleep(time.Second), then the next iteration
MsmSleep ==
    /\ mainPc = "msm_sleep"
    /\ mainPc' = "msm_try"
    /\ UNCHANGED <<be, beErr, sigInstalled, sigRegistered, sigs, stopCalls,
                   exitCode, configBackend>>
    /\ UNCHANGED storeVars
    /\ UNCHANGED runVars

------------------------------------------------------------------------------
(* main                                                                    *)

\* be, err := newBackend(), past makeSubnetManager
MainNewBackend ==
    /\ mainPc = "newBackend"
    /\ LET r == NewBackendResult(configBackend)
       IN /\ be' = r.be
          /\ beErr' = r.err
    /\ mainPc' = "checkErr"
    /\ UNCHANGED <<sigInstalled, sigRegistered, sigs, stopCalls, exitCode,
                   configBackend>>
    /\ UNCHANGED storeVars
    /\ UNCHANGED runVars

\* if err != nil { log.Info(err); os.Exit(1) }
MainCheckErr ==
    /\ mainPc = "checkErr"
    /\ IF beErr # "nil"
       THEN mainPc' = "exited" /\ exitCode' = 1
       ELSE mainPc' = "notify" /\ exitCode' = exitCode
    /\ UNCHANGED <<be, beErr, sigInstalled, sigRegistered, sigs, stopCalls,
                   configBackend>>
    /\ UNCHANGED storeVars
    /\ UNCHANGED runVars

\* signal.Notify(sigs, os.Interrupt, syscall.SIGTERM)
MainNotify ==
    /\ mainPc = "notify"
    /\ sigInstalled' = TRUE
    /\ sigRegistered' = TRUE
    /\ mainPc' = "spawn"
    /\ UNCHANGED <<be, beErr, sigs, stopCalls, exitCode, configBackend>>
    /\ UNCHANGED storeVars
    /\ UNCHANGED runVars

\* exit := make(chan int); go run(be, exit)
MainSpawn ==
    /\ mainPc = "spawn"
    /\ runPc' = "lookup"
    /\ mainPc' = "select"
    /\ UNCHANGED <<be, beErr, sigInstalled, sigRegistered, sigs, stopCalls,
                   exitCode, configBackend>>
    /\ UNCHANGED storeVars
    /\ UNCHANGED <<err, ifaceMTU, snInit, sn, subnetFile, writeErr,
                   sdNotified, initCalls, initResult, runCalls, runEnd>>

\* The runtime hands a signal to the registered channel without blocking:
\* it is queued when the buffer has room and dropped when it has not.
Signal ==
    /\ Alive
    /\ sigRegistered
    /\ \E s \in Signals :
          sigs' = IF Len(sigs) < SigBufCap THEN Append(sigs, s) ELSE sigs
    /\ UNCHANGED <<mainPc, be, beErr, sigInstalled, sigRegistered, stopCalls,
                   exitCode, configBackend>>
    /\ UNCHANGED storeVars
    /\ UNCHANGED runVars

\* select { case <-sigs: ... }
MainSelectSig ==
    /\ mainPc = "select"
    /\ sigs # <<>>
    /\ sigs' = Tail(sigs)
    /\ mainPc' = "sigStop"
    /\ UNCHANGED <<be, beErr, sigInstalled, sigRegistered, stopCalls,
                   exitCode, configBackend>>
    /\ UNCHANGED storeVars
    /\ UNCHANGED runVars

\* Mutant of MainSigStop: the channel is left registered
MainSigStop_StaysRegistered ==
    /\ mainPc = "sigStop"
    /\ mainPc' = "stop"
    /\ UNCHANGED <<be, beErr, sigInstalled, sigRegistered, sigs, stopCalls,
                   exitCode, configBackend>>
    /\ UNCHANGED storeVars
    /\ UNCHANGED runVars

\* signal.Stop(sigs): no signal is queued on sigs once it has returned; a
\* signal already in the buffer stays there.
MainSigStop ==
    /\ mainPc = "sigStop"
    /\ sigRegistered' = FALSE
    /\ mainPc' = "stop"
    /\ UNCHANGED <<be, beErr, sigInstalled, sigs, stopCalls, exitCode,
                   configBackend>>
    /\ UNCHANGED storeVars
    /\ UNCHANGED runVars

\* Mutant of MainStop: main exits by itself once it has stopped the backend
MainStop_ExitsOnSignal ==
    /\ mainPc = "stop"
    /\ stopCalls' = stopCalls + 1
    /\ mainPc' = "exited"
    /\ exitCode' = 0
    /\ UNCHANGED <<be, beErr, sigInstalled, sigRegistered, sigs,
                   configBackend>>
    /\ UNCHANGED storeVars
    /\ UNCHANGED runVars

\* log.Info("Exiting..."); be.Stop(), and back to the select
MainStop ==
    /\ mainPc = "stop"
    /\ stopCalls' = stopCalls + 1
    /\ mainPc' = "select"
    /\ UNCHANGED <<be, beErr, sigInstalled, sigRegistered, sigs, exitCode,
                   configBackend>>
    /\ UNCHANGED storeVars
    /\ UNCHANGED runVars

\* run's deferred function: the code it sends on exit
DeferCode(e) == IF e = "nil" \/ e = "ErrCanceled" THEN 0 ELSE 1

\* select { case code := <-exit: os.Exit(code) }, the rendezvous with the
\* deferred function's send on the unbuffered channel
MainSelectExit ==
    /\ mainPc = "select"
    /\ runPc = "defer"
    /\ exitCode' = DeferCode(err)
    /\ mainPc' = "exited"
    /\ runPc' = "done"
    /\ UNCHANGED <<be, beErr, sigInstalled, sigRegistered, sigs, stopCalls,
                   configBackend>>
    /\ UNCHANGED storeVars
    /\ UNCHANGED <<err, ifaceMTU, snInit, sn, subnetFile, writeErr,
                   sdNotified, initCalls, initResult, runCalls, runEnd>>

------------------------------------------------------------------------------
(* writeSubnetFile                                                         *)

\* Mutant of UsableIP: the last octet alone is incremented, without carry
UsableIP_NoCarry(ip) == <<ip[1], ip[2], ip[3], (ip[4] + 1) % 256>>

\* sn.Net.IP += 1 on an ip.IP4, an unsigned 32-bit integer, held here as
\* its four octets, most significant first: the carry runs from the last
\* octet to the first and the sum wraps at 2^32.
UsableIP(ip) ==
    LET d == ip[4] + 1
        c == ip[3] + (d \div 256)
        b == ip[2] + (c \div 256)
        a == ip[1] + (b \div 256)
    IN <<a % 256, b % 256, c % 256, d % 256>>

\* fmt.Fprintf(f, "FLANNEL_SUBNET=%s\n", sn.Net): the text of an ip.IP4Net
\* is its address (dotted octets), a slash and its prefix length
SubnetLine(net) == <<"FLANNEL_SUBNET=", net.IP, "/", net.PrefixLen>>

\* fmt.Fprintf(f, "FLANNEL_MTU=%d\n", sn.MTU)
MTULine(mtu) == <<"FLANNEL_MTU=", mtu>>

\* How far a call of writeSubnetFile gets: os.Create fails, the first or
\* the second Fprintf fails, or all succeed.
WriteOutcomes == {"ok", "create", "write1", "write2"}

\* writeSubnetFile(sn) on the file `file`: the SubnetDef it leaves behind,
\* the file and the error it returns.
WriteSubnetFile(s, file, outcome) ==
    LET s1 == [s EXCEPT !.IP = UsableIP(s.IP)]
        l1 == SubnetLine([IP |-> s1.IP, PrefixLen |-> s1.PrefixLen])
        l2 == MTULine(s1.MTU)
    IN CASE outcome = "create" ->
              [sn |-> s1, file |-> file, err |-> "create"]
         [] outcome = "write1" ->
              [sn |-> s1, file |-> [exists |-> TRUE, lines |-> <<>>],
               err |-> "write"]
         [] outcome = "write2" ->
              [sn |-> s1, file |-> [exists |-> TRUE, lines |-> <<l1>>],
               err |-> "write"]
         [] OTHER ->
              [sn |-> s1, file |-> [exists |-> TRUE, lines |-> <<l1, l2>>],
               err |-> "nil"]

------------------------------------------------------------------------------
(* run                                                                     *)

\* iface, ipaddr, err := lookupIface(); if err != nil { return }
RunLookup ==
    /\ runPc = "lookup"
    /\ \/ /\ \E m \in IfaceMTUs : ifaceMTU' = m
          /\ runPc' = "mtuCheck"
          /\ err' = "nil"
       \/ /\ err' = "lookup"
          /\ runPc' = "defer"
          /\ UNCHANGED ifaceMTU
    /\ UNCHANGED <<snInit, sn, subnetFile, writeErr, sdNotified, initCalls,
                   initResult, runCalls, runEnd, configBackend>>
    /\ UNCHANGED storeVars
    /\ UNCHANGED mainVars

\* Mutant of MTUUndetermined: the test is for a negative MTU
MTUUndetermined_Negative(mtu) == mtu < 0

\* if iface.MTU == 0
MTUUndetermined(mtu) == mtu = 0

\* if iface.MTU == 0 { err = fmt.Errorf("Failed to determine MTU ..."); return }
RunMtuCheck ==
    /\ runPc = "mtuCheck"
    /\ IF MTUUndetermined(ifaceMTU)
       THEN err' = "mtu" /\ runPc' = "defer"
       ELSE err' = err /\ runPc' = "init"
    /\ UNCHANGED <<ifaceMTU, snInit, sn, subnetFile, writeErr, sdNotified,
                   initCalls, initResult, runCalls, runEnd, configBackend>>
    /\ UNCHANGED storeVars
    /\ UNCHANGED mainVars

\* be.Init(iface, ipaddr, opts.ipMasq) is entered
RunInitCall ==
    /\ runPc = "init"
    /\ initCalls' = initCalls + 1
    /\ initResult' = "pending"
    /\ runPc' = "inInit"
    /\ UNCHANGED <<err, ifaceMTU, snInit, sn, subnetFile, writeErr,
                   sdNotified, runCalls, runEnd, configBackend>>
    /\ UNCHANGED storeVars
    /\ UNCHANGED mainVars

\* Mutant of AfterInit: run goes on whatever Init returned
AfterInit_IgnoreError(e) == "write"

\* Mutant of AfterInit: run goes on when Init was cancelled
AfterInit_RunOnCancel(e) ==
    IF e = "nil" \/ e = "ErrCanceled" THEN "write" ELSE "defer"

\* if err != nil { log.Error(...); return }: where run goes with Init's error
AfterInit(e) == IF e # "nil" THEN "defer" ELSE "write"

\* sn, err := be.Init(...) returns: an assignment, task.ErrCanceled (the
\* backend was stopped while it acquired the lease) or another error
InitReturn ==
    /\ runPc = "inInit"
    /\ \/ /\ \E a \in Assignments : snInit' = a /\ sn' = a
          /\ err' = "nil"
          /\ initResult' = "ok"
       \/ /\ stopCalls > 0
          /\ err' = "ErrCanceled"
          /\ initResult' = "ErrCanceled"
          /\ UNCHANGED <<snInit, sn>>
       \/ /\ err' = "init"
          /\ initResult' = "error"
          /\ UNCHANGED <<snInit, sn>>
    /\ runPc' = AfterInit(err')
    /\ UNCHANGED <<ifaceMTU, subnetFile, writeErr, sdNotified, initCalls,
                   runCalls, runEnd, configBackend>>
    /\ UNCHANGED storeVars
    /\ UNCHANGED mainVars

\* writeSubnetFile(sn), its error discarded
RunWrite ==
    /\ runPc = "write"
    /\ \E o \in WriteOutcomes :
          LET r == WriteSubnetFile(sn, subnetFile, o)
          IN /\ sn' = r.sn
             /\ subnetFile' = r.file
             /\ writeErr' = r.err
    /\ runPc' = "sdNotify"
    /\ UNCHANGED <<err, ifaceMTU, snInit, sdNotified, initCalls, initResult,
                   runCalls, runEnd, configBackend>>
    /\ UNCHANGED storeVars
    /\ UNCHANGED mainVars

\* daemon.SdNotify("READY=1")
RunSdNotify ==
    /\ runPc = "sdNotify"
    /\ sdNotified' = TRUE
    /\ runPc' = "run"
    /\ UNCHANGED <<err, ifaceMTU, snInit, sn, subnetFile, writeErr,
                   initCalls, initResult, runCalls, runEnd, configBackend>>
    /\ UNCHANGED storeVars
    /\ UNCHANGED mainVars

\* be.Run() is entered
RunRunCall ==
    /\ runPc = "run"
    /\ runCalls' = runCalls + 1
    /\ runPc' = "inRun"
    /\ UNCHANGED <<err, ifaceMTU, snInit, sn, subnetFile, writeErr,
                   sdNotified, initCalls, initResult, runEnd, configBackend>>
    /\ UNCHANGED storeVars
    /\ UNCHANGED mainVars

\* be.Run() returns, for the reason e; the statement be.Run() assigns
\* nothing, so err keeps the nil that Init left
RunReturn(e) ==
    /\ runPc = "inRun"
    /\ e = "stopped" => stopCalls > 0
    /\ runEnd' = e
    /\ runPc' = "defer"
    /\ UNCHANGED <<err, ifaceMTU, snInit, sn, subnetFile, writeErr,
                   sdNotified, initCalls, initResult, runCalls, configBackend>>
    /\ UNCHANGED storeVars
    /\ UNCHANGED mainVars

RunEnds == {"ok", "stopped", "fatal"}

BackendRunReturns == \E e \in RunEnds : RunReturn(e)

------------------------------------------------------------------------------

MainStep ==
    \/ MsmTry
    \/ MsmSleep
    \/ MainNewBackend
    \/ MainCheckErr
    \/ MainNotify
    \/ MainSpawn
    \/ MainSelectSig
    \/ MainSigStop
    \/ MainStop
    \/ MainSelectExit

RunStep ==
    \/ RunLookup
    \/ RunMtuCheck
    \/ RunInitCall
    \/ RunWrite
    \/ RunSdNotify
    \/ RunRunCall

Next ==
    \/ StoreChange
    \/ Signal
    \/ MainStep
    \/ RunStep
    \/ InitReturn
    \/ BackendRunReturns

Spec == Init /\ [][Next]_vars

\* The scheduler runs every goroutine that can take a step, and the exit
\* case of main's select is taken once no signal is left to compete with
\* it.  Of the backend it is assumed that Init and Run return once Stop has
\* been invoked; without Stop they may block for ever.
FairSpec ==
    /\ Spec
    /\ WF_vars(MainStep)
    /\ WF_vars(MainSelectExit)
    /\ WF_vars(RunStep)
    /\ WF_vars(stopCalls > 0 /\ InitReturn)
    /\ WF_vars(stopCalls > 0 /\ BackendRunReturns)

------------------------------------------------------------------------------
(* Vocabulary of the claims.                                               *)

InMsm == mainPc \in {"msm_try", "msm_sleep"}

\* newBackend has returned to main
BackendDecided == mainPc \notin {"msm_try", "msm_sleep", "newBackend"}

Exited == mainPc = "exited"

\* The members of an object payload that carry the backend type tag
TypeMembers(p) ==
    {i \in DOMAIN p.fields : p.fields[i].key \in {S_Type, S_type}}

\* The payload is an object without a Type member
ObjectWithoutType(p) == p.raw = "object" /\ TypeMembers(p) = {}

\* The payload is an object whose only Type member is the string t
HasTag(p, t) ==
    /\ p.raw = "object"
    /\ Cardinality(TypeMembers(p)) = 1
    /\ \A i \in TypeMembers(p) : p.fields[i].isStr /\ p.fields[i].str = t

\* The payload cannot be decoded into a struct with a string Type
Undecodable(p) ==
    \/ p.raw \in {"malformed", "array"}
    \/ p.raw = "object" /\ \E i \in TypeMembers(p) : ~p.fields[i].isStr

\* The spellings of "udp" and of "alloc" among the tags of the model
UdpSpellings == {S_udp, S_UDP, S_Udp}
AllocSpellings == {S_alloc, S_ALLOC}

------------------------------------------------------------------------------
(* C1 as stated: Run is invoked only after Init returned successfully, and *)
(* whenever Init returned an error Run is never invoked, no subnet file is *)
(* written, no readiness notification is sent and the exit code is not 0.  *)
C1_Original ==
    /\ runCalls > 0 => initResult = "ok"
    /\ initResult \in {"error", "ErrCanceled"} =>
          /\ runCalls = 0
          /\ ~subnetFile.exists
          /\ ~sdNotified
          /\ Exited => exitCode # 0

(* C1 amended: Run is invoked only after Init returned successfully; when  *)
(* Init returned an error, Run is never invoked, no subnet file is written *)
(* and no readiness notification is sent, and the process exits with code  *)
(* 1, except that it exits with code 0 when the error is task.ErrCanceled. *)
C1_InitGatesRun ==
    /\ runCalls > 0 => initResult = "ok"
    /\ initResult \in {"error", "ErrCanceled"} =>
          /\ runCalls = 0
          /\ ~subnetFile.exists
          /\ ~sdNotified
          /\ runPc \in {"defer", "done"}
          /\ Exited => exitCode = (IF initResult = "ErrCanceled" THEN 0 ELSE 1)

C1_Witness == Exited /\ initResult = "error" /\ exitCode = 1 /\ initCalls = 1

(* C2 as stated: when Run ended because of a fatal error the process exits *)
(* with a non-zero code, and after Run has ended the exit code is 0 only   *)
(* if Run ended without error or by cancellation through Stop.             *)
C2_FatalRunExitsNonZero ==
    (Exited /\ runCalls > 0) => (exitCode = 0 <=> runEnd \in {"ok", "stopped"})

(* C3: for a payload whose type tag is none of the spellings of "udp" and  *)
(* "alloc", and for a payload that cannot be decoded, newBackend returns   *)
(* an error and no backend, and main exits with code 1 without installing  *)
(* the signal handlers, starting run or calling Init, Run or Stop.         *)
C3_UnknownTagIsFatal ==
    (/\ BackendDecided
     /\ \/ Undecodable(configBackend)
        \/ \E t \in Tags \ (UdpSpellings \cup AllocSpellings) :
              HasTag(configBackend, t))
    => /\ be = "none"
       /\ beErr # "nil"
       /\ mainPc \in {"checkErr", "exited"}
       /\ Exited => exitCode = 1
       /\ ~sigInstalled
       /\ runPc = "none"
       /\ initCalls = 0 /\ runCalls = 0 /\ stopCalls = 0

C3_Witness ==
    /\ Exited
    /\ exitCode = 1
    /\ HasTag(configBackend, S_vxlan)
    /\ beErr = "unknown"

(* C4: when lookupIface succeeded and the interface reports MTU 0, run     *)
(* fails with the MTU error: Init and Run are never invoked, no subnet     *)
(* file is written and the process exits with code 1; for a non-zero MTU   *)
(* the check does not fail and run goes on to Init.                        *)
C4_ZeroMtuIsFatal ==
    (runPc \notin {"none", "lookup", "mtuCheck"} /\ err # "lookup")
    => /\ ifaceMTU = 0 =>
            /\ err = "mtu"
            /\ runPc \in {"defer", "done"}
            /\ initCalls = 0 /\ runCalls = 0
            /\ ~subnetFile.exists
            /\ Exited => exitCode = 1
       /\ ifaceMTU # 0 =>
            /\ err # "mtu"
            /\ runPc = "init" \/ initCalls = 1

C4_Witness == Exited /\ err = "mtu" /\ ifaceMTU = 0 /\ exitCode = 1

(* C5 as stated: Run is started only after Init has returned, and Stop is  *)
(* never invoked before Init has returned and Run has been started.        *)
C5_Original ==
    /\ runCalls > 0 => initResult = "ok"
    /\ stopCalls > 0 => (initResult = "ok" /\ runCalls > 0)

(* C5 amended: Init is invoked once and before Run, which is started only  *)
(* after Init has returned without error; Stop is invoked only after the   *)
(* signal handlers were installed and the run goroutine was started, at    *)
(* any point from then on: before Init is called, while Init is in         *)
(* progress, or while Run is.                                              *)
C5_InitBeforeRunStopAnytime ==
    /\ runCalls > 0 => (initCalls = 1 /\ initResult = "ok")
    /\ initCalls <= 1 /\ runCalls <= 1
    /\ stopCalls > 0 => (sigInstalled /\ be # "none" /\ runPc # "none")

C5_Witness == stopCalls > 0 /\ initCalls = 0 /\ runPc = "init"

C7_Original ==
    BackendDecided =>
       /\ (PayloadEmpty(configBackend) \/ ObjectWithoutType(configBackend))
             => (be = "udp" /\ beErr = "nil")
       /\ HasTag(configBackend, S_udp) => (be = "udp" /\ beErr = "nil")
       /\ HasTag(configBackend, S_alloc) => (be = "alloc" /\ beErr = "nil")

(* C7 amended: when the payload is absent (empty) newBackend selects the   *)
(* UDP backend and returns no error; a payload that is present without a   *)
(* Type member (an object without one, or null) gives the empty tag, for   *)
(* which newBackend returns the unknown-backend-type error and no backend; *)
(* tag "udp" selects the UDP backend and tag "alloc" the lease-only one.   *)
C7_DefaultOnlyWhenAbsent ==
    BackendDecided =>
       /\ PayloadEmpty(configBackend) => (be = "udp" /\ beErr = "nil")
       /\ (ObjectWithoutType(configBackend) \/ configBackend.raw = "null")
             => (be = "none" /\ beErr = "unknown")
       /\ HasTag(configBackend, S_udp) => (be = "udp" /\ beErr = "nil")
       /\ HasTag(configBackend, S_alloc) => (be = "alloc" /\ beErr = "nil")

C7_Witness ==
    mainPc = "notify" /\ PayloadEmpty(configBackend) /\ be = "udp"

\* The 16-bit halves of an address, and the address one above it
HighHalf(ip) == ip[1] * 256 + ip[2]
LowHalf(ip) == ip[3] * 256 + ip[4]
IsNextAddress(ip, next) ==
    /\ LowHalf(next) = (LowHalf(ip) + 1) % 65536
    /\ HighHalf(next) =
          (HighHalf(ip) + ((LowHalf(ip) + 1) \div 65536)) % 65536

(* C8: once writeSubnetFile has returned without error, the subnet file is *)
(* exactly the two lines FLANNEL_SUBNET=<a>/<len> and FLANNEL_MTU=<m>: a   *)
(* is the address Init returned plus one (as a 32-bit unsigned number),    *)
(* len the prefix length Init returned and m the MTU Init returned.        *)
C8_SubnetFileContent ==
    writeErr = "nil" =>
       /\ subnetFile.exists
       /\ Len(subnetFile.lines) = 2
       /\ LET l1 == subnetFile.lines[1]
              l2 == subnetFile.lines[2]
          IN /\ Len(l1) = 4 /\ Len(l2) = 2
             /\ l1[1] = "FLANNEL_SUBNET=" /\ l1[3] = "/"
             /\ IsNextAddress(snInit.IP, l1[2])
             /\ \A i \in 1..4 : l1[2][i] \in 0..255
             /\ l1[4] = snInit.PrefixLen
             /\ l2[1] = "FLANNEL_MTU="
             /\ l2[2] = snInit.MTU

C8_Witness ==
    /\ writeErr = "nil"
    /\ snInit.IP = <<10, 0, 255, 255>>
    /\ subnetFile.lines[1][2] = <<10, 1, 0, 0>>

(* C9: makeSubnetManager returns only from an attempt made while the store *)
(* is reachable; a failed attempt leads to the sleep and the next attempt, *)
(* without an error, an exit or a backend; and if the store is reachable   *)
(* from some point on, newBackend eventually goes on to select a backend.  *)
C9_RetryUntilStoreReachable ==
    /\ [][(InMsm /\ ~InMsm')
            => (mainPc = "msm_try" /\ storeUp /\ mainPc' = "newBackend")]_vars
    /\ [][(mainPc = "msm_try" /\ ~storeUp /\ mainPc' # mainPc)
            => mainPc' = "msm_sleep"]_vars
    /\ [](InMsm => (be = "none" /\ beErr = "nil" /\ exitCode = -1))
    /\ (<>[]storeUp) => <>(~InMsm)

C9_Witness == attempts > 0 /\ mainPc = "checkErr" /\ be = "udp"

(* C10 as stated: Stop is invoked at most once.                            *)
C10_Original == stopCalls <= 1

(* C10 amended: Stop is invoked at most twice: signal.Stop lets no signal  *)
(* be queued once it has returned, but a signal queued between main's      *)
(* receive and signal.Stop stays in the channel's buffer (of capacity 1),  *)
(* and the loop's next iteration receives it and calls Stop again.         *)
C10_StopAtMostTwice ==
    /\ stopCalls <= 1 + SigBufCap
    /\ stopCalls = 1 + SigBufCap => (sigs = <<>> /\ ~sigRegistered)

C10_Witness == stopCalls = 2 /\ mainPc = "select"

==============================================================================
